---- MODULE Spec2Model ----
(***************************************************************************)
(* Model of clipdeck/notification-service.                                 *)
(*                                                                         *)
(*   - the notification store behind services/notificationService          *)
(*   - the multi-channel delivery coordinator, deliver(payload, channels), *)
(*     with its two channel strategies                                     *)
(*   - the event handlers registered by createNotificationConsumer, each   *)
(*     a body (create a notification, then context.ack()) under            *)
(*     withRetry(withLogging(...))                                         *)
(*                                                                         *)
(* Spec       : repeated deliver() calls over one store                    *)
(* RouterSpec : events dispatched to their handlers by the consumer        *)
(* StoreSpec  : the HTTP API of routes/notifications over the store, with  *)
(*              handlers creating notifications and the clock advancing    *)
(* FormatSpec : one event carrying an amount through its handler           *)
(* RaceSpec   : read-then-write requests of two clients, interleaved       *)
(***************************************************************************)
EXTENDS Integers, Sequences, FiniteSets, TLC

VARIABLES
    store,              \* rows of the notification table, in creation order
    nextId,             \* the id the next row gets
    discordServiceUrl,  \* config.discordServiceUrl
    dpc,                \* position of the deliver() call: idle, loop, returned, threw
    payload,            \* deliver's payload argument
    channels,           \* deliver's channels argument
    idx,                \* index of the channel the for-of loop is at
    results,            \* deliver's local results array
    calls,              \* the strategy invocations of the current deliver() call
    httpLog,            \* outbound requests axios.post was asked to make
    ndeliver,           \* number of deliver() calls started
    events,             \* events the consumer runtime has dispatched
    run,                \* per event: position of its handler and what it did
    now,                \* the database clock, in milliseconds
    clients             \* per API client: the request it has in flight, or its last response

vars == <<store, nextId, discordServiceUrl, dpc, payload, channels, idx, results,
          calls, httpLog, ndeliver, events, run, now, clients>>
deliverVars == <<dpc, payload, channels, idx, results, calls, httpLog, ndeliver>>
routerVars == <<events, run>>
apiVars == <<now, clients>>

----------------------------------------------------------------------------
(* Bounds *)

MaxChannels == 2
MaxDeliver == 2
MaxEvents == 1
MaxAttempts == 2
MaxRows == 2
MaxClock == 1
MaxAmount == 1000

----------------------------------------------------------------------------
(* JavaScript values *)

Undefined == "<undefined>"
Null == "<null>"

\* !v for the values a configuration string can take
Falsy(v) == v \in {Undefined, Null, ""}

\* v ?? d
Coalesce(v, d) == IF v \in {Undefined, Null} THEN d ELSE v

\* a thrown value; everything prisma, axios and `new Error` throw is an Error
NewError(msg) == [isError |-> TRUE, message |-> msg]

\* error instanceof Error ? error.message : 'Unknown error'
ErrorMessage(error) == IF error.isError THEN error.message ELSE "Unknown error"

NoError == [isError |-> FALSE]

----------------------------------------------------------------------------
(* Notification store: services/notificationService over prisma *)

\* what the database can answer to one create
StoreOutcomes == {"ok", "unreachable"}

StoreError(outcome) == NewError("Can't reach database server")

\* a create that skips a notification the user already has
createNotification_Dedup(st, id, userId, type, title, message, link, metadata, outcome) ==
    IF outcome # "ok"
    THEN [threw |-> TRUE, error |-> StoreError(outcome), nextId |-> id, store |-> st]
    ELSE IF \E k \in 1..Len(st) :
                /\ st[k].userId = userId
                /\ st[k].type = type
                /\ st[k].title = title
                /\ st[k].message = Coalesce(message, Null)
         THEN [threw |-> FALSE, error |-> NoError, nextId |-> id, store |-> st]
         ELSE [threw |-> FALSE, error |-> NoError, nextId |-> id + 1,
               store |-> Append(st, [id |-> id, userId |-> userId, type |-> type,
                                     title |-> title,
                                     message |-> Coalesce(message, Null),
                                     link |-> Coalesce(link, Null),
                                     metadata |-> Coalesce(metadata, Null),
                                     isRead |-> FALSE, createdAt |-> now])]

\* a create whose row is written although the call fails
createNotification_WritesBeforeFailing(st, id, userId, type, title, message, link, metadata, outcome) ==
    [threw |-> outcome # "ok",
     error |-> IF outcome = "ok" THEN NoError ELSE StoreError(outcome),
     nextId |-> id + 1,
     store |-> Append(st, [id |-> id, userId |-> userId, type |-> type,
                           title |-> title,
                           message |-> Coalesce(message, Null),
                           link |-> Coalesce(link, Null),
                           metadata |-> Coalesce(metadata, Null),
                           isRead |-> FALSE, createdAt |-> now])]

\* prisma.notification.create({ data }) : the row gets a fresh id, isRead
\* false and the creation time; a failing store throws and writes nothing
createNotification(st, id, userId, type, title, message, link, metadata, outcome) ==
    IF outcome = "ok"
    THEN [threw |-> FALSE, error |-> NoError, nextId |-> id + 1,
          store |-> Append(st, [id |-> id,
                                userId |-> userId,
                                type |-> type,
                                title |-> title,
                                message |-> Coalesce(message, Null),
                                link |-> Coalesce(link, Null),
                                metadata |-> Coalesce(metadata, Null),
                                isRead |-> FALSE,
                                createdAt |-> now])]
    ELSE [threw |-> TRUE, error |-> StoreError(outcome), nextId |-> id, store |-> st]

\* a helper that files system notifications under the campaign-ended type
createSystemNotification_CampaignEnded(st, id, userId, title, message, outcome) ==
    createNotification(st, id, userId, "CAMPAIGN_ENDED", title, message,
                       Undefined, Undefined, outcome)

createSystemNotification(st, id, userId, title, message, outcome) ==
    createNotification(st, id, userId, "SYSTEM_ALERT", title, message,
                       Undefined, Undefined, outcome)

\* prisma.notification.findUnique({ where: { id } }) : the row, if there is one
findUnique(st, id) == SelectSeq(st, LAMBDA r : r.id = id)

\* the rows a where-clause on userId selects
WhereUser(st, userId) == SelectSeq(st, LAMBDA r : r.userId = userId)

\* the rows a where-clause on userId and isRead: false selects
WhereUserUnread(st, userId) ==
    SelectSeq(st, LAMBDA r : r.userId = userId /\ ~r.isRead)

\* prisma.notification.count({ where })
count(rows) == Len(rows)

Min(a, b) == IF a < b THEN a ELSE b

\* a listing that comes back in insertion order
OrderByCreatedAtDesc_InsertionOrder(rows) == {rows}

\* orderBy: { createdAt: 'desc' } : the orders the database may return the
\* rows in; rows created in the same millisecond come in either order
OrderByCreatedAtDesc(rows) ==
    LET n == Len(rows)
        Perms == {p \in [1..n -> 1..n] : \A i, j \in 1..n : i # j => p[i] # p[j]}
    IN  {[i \in 1..n |-> rows[p[i]]] : p \in
            {q \in Perms : \A i \in 1..n, j \in 1..n :
                              i < j => rows[q[i]].createdAt >= rows[q[j]].createdAt}}

\* skip: offset, take: limit
SkipTake(rows, limit, offset) ==
    SubSeq(rows, offset + 1, Min(offset + limit, Len(rows)))

\* prisma.notification.findMany({ where: { userId }, orderBy, take, skip })
findMany(st, userId, limit, offset) ==
    {SkipTake(ordered, limit, offset) : ordered \in OrderByCreatedAtDesc(WhereUser(st, userId))}

\* an update that also clears the message
update_ClearsMessage(st, id) ==
    IF findUnique(st, id) = <<>>
    THEN [threw |-> TRUE, store |-> st]
    ELSE [threw |-> FALSE,
          store |-> [k \in 1..Len(st) |->
                        IF st[k].id = id
                        THEN [st[k] EXCEPT !.isRead = TRUE, !.message = ""]
                        ELSE st[k]]]

\* prisma.notification.update({ where: { id }, data: { isRead: true } }) :
\* throws when the row to update does not exist
update(st, id) ==
    IF findUnique(st, id) = <<>>
    THEN [threw |-> TRUE, store |-> st]
    ELSE [threw |-> FALSE,
          store |-> [k \in 1..Len(st) |->
                        IF st[k].id = id THEN [st[k] EXCEPT !.isRead = TRUE]
                        ELSE st[k]]]

\* an updateMany whose where-clause lost the userId
updateMany_Everyone(st, userId) ==
    [count |-> Len(SelectSeq(st, LAMBDA r : ~r.isRead)),
     store |-> [k \in 1..Len(st) |-> [st[k] EXCEPT !.isRead = TRUE]]]

\* prisma.notification.updateMany({ where: { userId, isRead: false },
\*                                  data: { isRead: true } })
updateMany(st, userId) ==
    [count |-> count(WhereUserUnread(st, userId)),
     store |-> [k \in 1..Len(st) |->
                   IF st[k].userId = userId /\ ~st[k].isRead
                   THEN [st[k] EXCEPT !.isRead = TRUE]
                   ELSE st[k]]]

\* a delete that reports success and keeps the row
delete_KeepsRow(st, id) ==
    [threw |-> findUnique(st, id) = <<>>, store |-> st]

\* prisma.notification.delete({ where: { id } }) : throws when the row to
\* delete does not exist
delete(st, id) ==
    IF findUnique(st, id) = <<>>
    THEN [threw |-> TRUE, store |-> st]
    ELSE [threw |-> FALSE, store |-> SelectSeq(st, LAMBDA r : r.id # id)]

\* a check that only looks whether the row exists
Authorize_NoOwnerCheck(found, userId) ==
    IF found = <<>> THEN "NotFound" ELSE "ok"

\* the check both markAsRead and deleteNotification make on the row they found
Authorize(found, userId) ==
    IF found = <<>> THEN "NotFound"
    ELSE IF found[1].userId # userId THEN "Forbidden"
    ELSE "ok"

----------------------------------------------------------------------------
(* Delivery coordinator: services/deliveryService *)

\* channel identifiers a caller can pass at run time; "sms" is not a
\* DeliveryChannel and reaches the switch's default branch
Channels == {"in_app", "discord", "sms"}

ConfigUrls == {Undefined, "", "http://discord-service:3005"}

Payloads ==
    { [userId |-> "u1", type |-> "CLIP_APPROVED", title |-> "Clip Approved",
       message |-> "You earned $25.50.", link |-> Undefined, metadata |-> Undefined],
      [userId |-> "u2", type |-> "CLIP_REJECTED", title |-> "Clip Rejected",
       message |-> Undefined, link |-> "/clips/7", metadata |-> "{clipId:7}"] }

NoPayload ==
    [userId |-> Undefined, type |-> Undefined, title |-> Undefined,
     message |-> Undefined, link |-> Undefined, metadata |-> Undefined]

ChannelLists == UNION {[1..n -> Channels] : n \in 0..MaxChannels}

\* what the discord service can answer to one POST
HttpOutcomes == {"ok", "timeout", "status500", "refused"}

DiscordTimeoutMs == 5000

AxiosError(outcome) ==
    NewError(CASE outcome = "timeout" -> "timeout of 5000ms exceeded"
               [] outcome = "status500" -> "Request failed with status code 500"
               [] OTHER -> "connect ECONNREFUSED")

getColorForType(type) ==
    CASE type \in {"CLIP_APPROVED", "CAMPAIGN_ACCEPTED", "PAYMENT_COMPLETED",
                   "PAYMENT_CREDITED"} -> 2278750
      [] type \in {"CLIP_REJECTED", "CAMPAIGN_REJECTED", "PAYMENT_ERROR"} -> 15680580
      [] type \in {"CAMPAIGN_ENDING", "CAMPAIGN_ENDED", "PAYMENT_PROCESSING"} -> 16096779
      [] type \in {"NEW_CAMPAIGN", "STUDIO_INVITE", "CLIP_MILESTONE"} -> 3900150
      [] OTHER -> 7041664

\* The part of the world one loop iteration reads and writes, with how the
\* awaited strategy ended (threw, error).
World(st, id, http, cl) ==
    [store |-> st, nextId |-> id, http |-> http, calls |-> cl,
     threw |-> FALSE, error |-> NoError]

deliverInApp(w, p, outcome) ==
    LET r == createNotification(w.store, w.nextId, p.userId, p.type, p.title,
                                p.message, p.link, p.metadata, outcome)
    IN  [w EXCEPT !.store = r.store, !.nextId = r.nextId,
                  !.threw = r.threw, !.error = r.error]

DiscordRequest(url, p) ==
    [url |-> url \o "/messages/dm",
     userId |-> p.userId,
     title |-> p.title,
     description |-> IF Falsy(p.message) THEN "" ELSE p.message,
     color |-> getColorForType(p.type),
     fields |-> IF Falsy(p.link) THEN Undefined ELSE p.link,
     timeout |-> DiscordTimeoutMs]

\* deliverDiscord without the check of the configured URL
deliverDiscord_NoGuard(w, p, url, outcome) ==
    LET sent == [w EXCEPT !.http = Append(w.http, DiscordRequest(url, p))]
    IN  IF outcome = "ok"
        THEN sent
        ELSE [sent EXCEPT
                !.threw = TRUE,
                !.error = NewError("Discord delivery failed: "
                                   \o ErrorMessage(AxiosError(outcome)))]

deliverDiscord(w, p, url, outcome) ==
    IF Falsy(url)
    THEN w
    ELSE LET sent == [w EXCEPT !.http = Append(w.http, DiscordRequest(url, p))]
         IN  IF outcome = "ok"
             THEN sent
             ELSE [sent EXCEPT
                     !.threw = TRUE,
                     !.error = NewError("Discord delivery failed: "
                                        \o ErrorMessage(AxiosError(outcome)))]

\* one awaited call of a channel strategy, entered in the call log
AttemptOnce(kind, i, w, p, url, env) ==
    LET r == IF kind = "in_app"
             THEN deliverInApp(w, p, env.store)
             ELSE deliverDiscord(w, p, url, env.http)
    IN  [r EXCEPT !.calls = Append(w.calls,
                                   [entry |-> i, strategy |-> kind, threw |-> r.threw,
                                    rows |-> Len(r.store) - Len(w.store),
                                    requests |-> Len(r.http) - Len(w.http)])]

\* a coordinator that tries a failed strategy a second time
InvokeStrategy_Retrying(kind, i, w, p, url, env) ==
    LET first == AttemptOnce(kind, i, w, p, url, env)
    IN  IF first.threw
        THEN AttemptOnce(kind, i, [first EXCEPT !.threw = FALSE, !.error = NoError],
                         p, url, env)
        ELSE first

\* `await deliverInApp(payload)` / `await deliverDiscord(payload)`
InvokeStrategy(kind, i, w, p, url, env) == AttemptOnce(kind, i, w, p, url, env)

\* a switch whose default falls into the in_app case
SwitchCase_Fallthrough(channel) ==
    IF channel = "discord" THEN "discord" ELSE "in_app"

\* switch (channel)
SwitchCase(channel) ==
    CASE channel = "in_app" -> "in_app"
      [] channel = "discord" -> "discord"
      [] OTHER -> "default"

\* the try block: the strategy, then the push of a success; the default
\* branch pushes its own failure and calls nothing
TryBlock(channel, i, w, p, url, env) ==
    LET kind == SwitchCase(channel)
    IN  IF kind = "default"
        THEN [world |-> w,
              push |-> <<[channel |-> channel, success |-> FALSE,
                          error |-> "Unknown channel"]>>]
        ELSE LET r == InvokeStrategy(kind, i, w, p, url, env)
             IN  [world |-> r,
                  push |-> IF r.threw THEN <<>>
                           ELSE <<[channel |-> channel, success |-> TRUE]>>]

\* a catch block that logs and records nothing
CatchBlock_NoPush(channel, error) == [push |-> <<>>, rethrow |-> FALSE]

\* a catch block that logs, records and rethrows
CatchBlock_Rethrow(channel, error) ==
    [push |-> <<[channel |-> channel, success |-> FALSE,
                 error |-> ErrorMessage(error)]>>,
     rethrow |-> TRUE]

\* the catch block: what it pushes and whether the error leaves deliver()
CatchBlock(channel, error) ==
    [push |-> <<[channel |-> channel, success |-> FALSE,
                 error |-> ErrorMessage(error)]>>,
     rethrow |-> FALSE]

\* one pass of `for (const channel of channels) { try ... catch ... }`
Iteration(channel, i, w, p, url, env) ==
    LET t == TryBlock(channel, i, w, p, url, env)
    IN  IF t.world.threw
        THEN LET c == CatchBlock(channel, t.world.error)
             IN  [world |-> t.world, push |-> c.push, caught |-> TRUE,
                  escaped |-> c.rethrow]
        ELSE [world |-> t.world, push |-> t.push, caught |-> FALSE,
              escaped |-> FALSE]

\* a loop that stops at the first failure
LoopAdvance_Break(i, n, caught) == IF caught THEN n + 1 ELSE i + 1

\* where the loop goes after a pass over channel i of n
LoopAdvance(i, n, caught) == i + 1

\* deliver(payload, channels) is called
Deliver(p, chs) ==
    /\ dpc \in {"idle", "returned"}
    /\ ndeliver < MaxDeliver
    /\ dpc' = "loop"
    /\ payload' = p
    /\ channels' = chs
    /\ idx' = 1
    /\ results' = <<>>
    /\ calls' = <<>>
    /\ ndeliver' = ndeliver + 1
    /\ UNCHANGED <<store, nextId, discordServiceUrl, httpLog, routerVars, apiVars>>

\* the loop body for channels[idx], up to and including its await
DeliverStep ==
    /\ dpc = "loop"
    /\ idx <= Len(channels)
    /\ \E so \in StoreOutcomes, ho \in HttpOutcomes :
         LET it == Iteration(channels[idx], idx,
                             World(store, nextId, httpLog, calls),
                             payload, discordServiceUrl,
                             [store |-> so, http |-> ho])
         IN  /\ store' = it.world.store
             /\ nextId' = it.world.nextId
             /\ httpLog' = it.world.http
             /\ calls' = it.world.calls
             /\ results' = results \o it.push
             /\ IF it.escaped
                THEN dpc' = "threw" /\ idx' = idx
                ELSE dpc' = "loop" /\ idx' = LoopAdvance(idx, Len(channels), it.caught)
    /\ UNCHANGED <<discordServiceUrl, payload, channels, ndeliver, routerVars, apiVars>>

\* return results
DeliverReturn ==
    /\ dpc = "loop"
    /\ idx > Len(channels)
    /\ dpc' = "returned"
    /\ UNCHANGED <<store, nextId, discordServiceUrl, payload, channels, idx, results,
                   calls, httpLog, ndeliver, routerVars, apiVars>>

----------------------------------------------------------------------------
(* Event router: events/handlers, createNotificationConsumer *)

RECURSIVE Pow10(_)
Pow10(k) == IF k = 0 THEN 1 ELSE 10 * Pow10(k - 1)

RECURSIVE Zeros(_)
Zeros(k) == IF k = 0 THEN "" ELSE "0" \o Zeros(k - 1)

\* Number.prototype.toFixed(f) of the number num / den : with x the absolute
\* value, n is the integer for which n / 10^f - x is closest to zero (the
\* larger one on a tie) and m its decimal digits, left-padded with zeros to
\* f + 1 digits; the result is the sign, all but the last f digits of m, a
\* point, and the last f digits
toFixed(num, den, f) ==
    LET x == IF num < 0 THEN 0 - num ELSE num
        n == (2 * x * Pow10(f) + den) \div (2 * den)
        digits == ToString(n)
        m == IF Len(digits) <= f THEN Zeros(f + 1 - Len(digits)) \o digits
             ELSE digits
        k == Len(m)
    IN  (IF num < 0 THEN "-" ELSE "")
        \o SubSeq(m, 1, k - f) \o "." \o SubSeq(m, k - f + 1, k)

\* an amount printed as units, a point and the remaining minor units
ToFixed2_Unpadded(n) == ToString(n \div 100) \o "." \o ToString(n % 100)

\* (n / 100).toFixed(2) for an integer number of minor units
ToFixed2(n) == toFixed(n, 100, 2)

\* one event of each routing key, and the variants the handlers branch on
EventInputs ==
    { [type |-> "clip.approved",
       payload |-> [userId |-> "u1", clipId |-> "c1", campaignId |-> "k1",
                    paymentAmount |-> 2550]],
      [type |-> "clip.rejected",
       payload |-> [userId |-> "u2", clipId |-> "c2", campaignId |-> "k1",
                    reason |-> "low quality"]],
      [type |-> "campaign.status_changed",
       payload |-> [campaignId |-> "k1", oldStatus |-> "ACTIVE",
                    newStatus |-> "PAUSED", changedBy |-> "u1"]],
      [type |-> "campaign.status_changed",
       payload |-> [campaignId |-> "k1", oldStatus |-> "ACTIVE",
                    newStatus |-> "PAUSED", changedBy |-> Undefined]],
      [type |-> "campaign.status_changed",
       payload |-> [campaignId |-> "k2", oldStatus |-> "PAUSED",
                    newStatus |-> "ACTIVE", changedBy |-> "u2"]],
      [type |-> "campaign.ended",
       payload |-> [campaignId |-> "k1", endReason |-> "BUDGET_EXHAUSTED",
                    totalClips |-> 12, totalViews |-> 3400]],
      [type |-> "payment.payout_completed",
       payload |-> [userId |-> "u1", payoutId |-> "p1", amount |-> 5,
                    transactionHash |-> "0xabc"]],
      [type |-> "dispute.created",
       payload |-> [userId |-> "u2", disputeId |-> "d1", clipId |-> "c2",
                    campaignId |-> "k1"]],
      [type |-> "dispute.resolved",
       payload |-> [userId |-> "u2", disputeId |-> "d1", clipId |-> "c2",
                    status |-> "RESOLVED", resolution |-> "refund issued"]],
      [type |-> "dispute.resolved",
       payload |-> [userId |-> "u1", disputeId |-> "d2", clipId |-> "c1",
                    status |-> "REJECTED", resolution |-> "no violation"]] }

NoRequest == [create |-> FALSE]

Request(userId, type, title, message, metadata) ==
    [create |-> TRUE, userId |-> userId, type |-> type, title |-> title,
     message |-> message, link |-> Undefined, metadata |-> metadata]

\* a handler that looks at the new status only
NotifiesStatusChange_StatusOnly(pl) == pl.newStatus = "PAUSED"

\* if (payload.newStatus === 'PAUSED') { if (payload.changedBy) { ... } }
NotifiesStatusChange(pl) == pl.newStatus = "PAUSED" /\ ~Falsy(pl.changedBy)

\* the createNotification call a handler body makes for an event, if any
HandlerRequest(ev) ==
    LET pl == ev.payload
    IN  CASE ev.type = "clip.approved" ->
               Request(pl.userId, "CLIP_APPROVED", "Clip Approved",
                       "Your clip has been approved! You earned $"
                           \o ToFixed2(pl.paymentAmount) \o ".",
                       "{clipId:" \o pl.clipId \o ",campaignId:" \o pl.campaignId
                           \o ",paymentAmount:" \o ToString(pl.paymentAmount) \o "}")
          [] ev.type = "clip.rejected" ->
               Request(pl.userId, "CLIP_REJECTED", "Clip Rejected",
                       "Your clip was rejected. Reason: " \o pl.reason,
                       "{clipId:" \o pl.clipId \o ",campaignId:" \o pl.campaignId
                           \o ",reason:" \o pl.reason \o "}")
          [] ev.type = "campaign.status_changed" ->
               IF NotifiesStatusChange(pl)
               THEN Request(pl.changedBy, "CAMPAIGN_ENDING", "Campaign Paused",
                            "Campaign has been paused.",
                            "{campaignId:" \o pl.campaignId \o ",oldStatus:"
                                \o pl.oldStatus \o ",newStatus:" \o pl.newStatus \o "}")
               ELSE NoRequest
          [] ev.type = "campaign.ended" ->
               \* createSystemNotification('system', ...)
               Request("system", "SYSTEM_ALERT", "Campaign Ended",
                       "Campaign ended (" \o pl.endReason \o "). Total clips: "
                           \o ToString(pl.totalClips) \o ", Total views: "
                           \o ToString(pl.totalViews) \o ".",
                       Undefined)
          [] ev.type = "payment.payout_completed" ->
               Request(pl.userId, "PAYMENT_COMPLETED", "Payment Completed",
                       "Your payout of $" \o ToFixed2(pl.amount)
                           \o " has been completed.",
                       "{payoutId:" \o pl.payoutId \o ",amount:" \o ToString(pl.amount)
                           \o ",transactionHash:" \o pl.transactionHash \o "}")
          [] ev.type = "dispute.created" ->
               Request(pl.userId, "SYSTEM_ALERT", "Dispute Created",
                       "Your dispute has been submitted and is under review.",
                       "{disputeId:" \o pl.disputeId \o ",clipId:" \o pl.clipId
                           \o ",campaignId:" \o pl.campaignId \o "}")
          [] ev.type = "dispute.resolved" ->
               Request(pl.userId, "SYSTEM_ALERT", "Dispute Resolved",
                       "Your dispute has been "
                           \o (IF pl.status = "RESOLVED" THEN "resolved in your favor"
                               ELSE "rejected")
                           \o ". Resolution: " \o pl.resolution,
                       "{disputeId:" \o pl.disputeId \o ",clipId:" \o pl.clipId
                           \o ",status:" \o pl.status \o ",resolution:"
                           \o pl.resolution \o "}")

\* a body that acknowledges first and creates afterwards
HandlerBody_AckFirst(type) == <<"ack", "create">>

\* the awaited statements of a handler body, in program order: the
\* notification creation (guarded, for campaign.status_changed), then
\* context.ack()
HandlerBody(type) == <<"create", "ack">>

\* what context.ack() can answer
AckOutcomes == {"ok", "channel closed"}

\* a body that catches the failure of an awaited call and goes on
Rejects_Swallowed(threw) == FALSE

\* an awaited call that throws rejects the body: no handler has a try/catch
Rejects(threw) == threw

\* One statement of a body, run against the store. mark is what the handler
\* did, as the run's history records it.
ExecStatement(stmt, ev, st, id, so, ao) ==
    IF stmt = "create"
    THEN LET req == HandlerRequest(ev)
         IN  IF ~req.create
             THEN [store |-> st, nextId |-> id, threw |-> FALSE, mark |-> "no_create"]
             ELSE LET r == IF ev.type = "campaign.ended"
                           THEN createSystemNotification(st, id, req.userId, req.title,
                                                         req.message, so)
                           ELSE createNotification(st, id, req.userId, req.type,
                                                   req.title, req.message, req.link,
                                                   req.metadata, so)
                  IN  [store |-> r.store, nextId |-> r.nextId, threw |-> r.threw,
                       mark |-> IF r.threw THEN "create_fail" ELSE "create_ok"]
    ELSE [store |-> st, nextId |-> id, threw |-> ao # "ok",
          mark |-> IF ao = "ok" THEN "ack_ok" ELSE "ack_fail"]

\* the consumer runtime hands an event to its handler: withRetry starts the
\* first attempt, withLogging logs and calls the body
Dispatch(ev) ==
    /\ Len(events) < MaxEvents
    /\ events' = Append(events, ev)
    /\ run' = Append(run, [pc |-> "body", pos |-> 1, attempt |-> 1,
                           hist |-> <<"invoke">>])
    /\ UNCHANGED <<store, nextId, discordServiceUrl, deliverVars, apiVars>>

\* the body of event e runs up to and including its next await
BodyStep(e) ==
    /\ run[e].pc = "body"
    /\ \E so \in StoreOutcomes, ao \in AckOutcomes :
         LET body == HandlerBody(events[e].type)
             r == ExecStatement(body[run[e].pos], events[e], store, nextId, so, ao)
         IN  /\ store' = r.store
             /\ nextId' = r.nextId
             /\ run' = [run EXCEPT
                          ![e].hist = Append(@, r.mark),
                          ![e].pos = @ + 1,
                          ![e].pc = IF Rejects(r.threw) THEN "threw"
                                    ELSE IF run[e].pos = Len(body) THEN "done"
                                    ELSE "body"]
    /\ UNCHANGED <<events, discordServiceUrl, deliverVars, apiVars>>

\* withRetry calls the rejected handler again
Retry(e) ==
    /\ run[e].pc = "threw"
    /\ run[e].attempt < MaxAttempts
    /\ run' = [run EXCEPT ![e].pc = "body", ![e].pos = 1, ![e].attempt = @ + 1,
                          ![e].hist = Append(@, "invoke")]
    /\ UNCHANGED <<events, store, nextId, discordServiceUrl, deliverVars, apiVars>>

\* withRetry gives up: the rejection reaches the consumer runtime
GiveUp(e) ==
    /\ run[e].pc = "threw"
    /\ run' = [run EXCEPT ![e].pc = "failed"]
    /\ UNCHANGED <<events, store, nextId, discordServiceUrl, deliverVars, apiVars>>

----------------------------------------------------------------------------
(* HTTP API: routes/notifications over services/notificationService *)

Users == {"u1", "u2"}

\* the API clients, and the one whose requests StoreSpec follows while
\* handlers create notifications and the clock advances
Clients == {"c1", "c2"}
StoreClients == {"c1"}

\* ids a request can name: every id the store can hand out and one it never does
IdInputs == 1..(MaxRows + 1)

\* body.notificationId left out of the request
NoId == 0

DefaultLimit == 20
DefaultOffset == 0

\* query.limit and query.offset after validation (1..100, 0..)
Limits == {1, 2, DefaultLimit}
Offsets == {DefaultOffset, 1}

\* the events whose notifications the API is exercised on, one per user
StoreEvents == {ev \in EventInputs : ev.type \in {"clip.approved", "clip.rejected"}}

Idle ==
    [op |-> "idle", pc |-> "idle", userId |-> "-", id |-> NoId, limit |-> 0,
     offset |-> 0, result |-> "none", notifications |-> <<>>, total |-> -1,
     count |-> -1,
     seen |-> -1]    \* history: the user's rows in the store the page was read from

Call(op, pc, userId) == [Idle EXCEPT !.op = op, !.pc = pc, !.userId = userId]

\* a client sends its next request when the previous one was answered
Ready(c) == clients[c].pc \in {"idle", "done"}

\* the database clock advances
Tick ==
    /\ now < MaxClock
    /\ now' = now + 1
    /\ UNCHANGED <<store, nextId, clients, discordServiceUrl, deliverVars, routerVars>>

\* a handler's createNotification call for an incoming event
Notify(ev, so) ==
    /\ nextId <= MaxRows
    /\ LET req == HandlerRequest(ev)
           r == createNotification(store, nextId, req.userId, req.type, req.title,
                                   req.message, req.link, req.metadata, so)
       IN  /\ store' = r.store
           /\ nextId' = r.nextId
    /\ UNCHANGED <<apiVars, discordServiceUrl, deliverVars, routerVars>>

\* GET /notifications : getNotifications starts both queries
ListRoute(c, userId, limit, offset) ==
    /\ Ready(c)
    /\ clients' = [clients EXCEPT ![c] =
                      [Call("getNotifications", "queries", userId)
                          EXCEPT !.limit = limit, !.offset = offset]]
    /\ UNCHANGED <<store, nextId, now, discordServiceUrl, deliverVars, routerVars>>

\* the findMany of getNotifications is answered
ListFindMany(c) ==
    LET cl == clients[c]
    IN  /\ cl.op = "getNotifications"
        /\ cl.pc \in {"queries", "counted"}
        /\ \E page \in findMany(store, cl.userId, cl.limit, cl.offset) :
              clients' = [clients EXCEPT ![c] =
                  [cl EXCEPT !.notifications = page,
                             !.seen = count(WhereUser(store, cl.userId)),
                             !.pc = IF cl.pc = "counted" THEN "done" ELSE "listed",
                             !.result = IF cl.pc = "counted" THEN "ok" ELSE "none"]]
        /\ UNCHANGED <<store, nextId, now, discordServiceUrl, deliverVars, routerVars>>

\* the count of getNotifications is answered
ListCount(c) ==
    LET cl == clients[c]
    IN  /\ cl.op = "getNotifications"
        /\ cl.pc \in {"queries", "listed"}
        /\ clients' = [clients EXCEPT ![c] =
              [cl EXCEPT !.total = count(WhereUser(store, cl.userId)),
                         !.pc = IF cl.pc = "listed" THEN "done" ELSE "counted",
                         !.result = IF cl.pc = "listed" THEN "ok" ELSE "none"]]
        /\ UNCHANGED <<store, nextId, now, discordServiceUrl, deliverVars, routerVars>>

\* GET /notifications/unread-count : getUnreadCount
UnreadCountRoute(c, userId) ==
    /\ Ready(c)
    /\ clients' = [clients EXCEPT ![c] =
          [Call("getUnreadCount", "done", userId)
              EXCEPT !.count = count(WhereUserUnread(store, userId)),
                     !.result = "ok"]]
    /\ UNCHANGED <<store, nextId, now, discordServiceUrl, deliverVars, routerVars>>

\* markAllAsRead(userId) : one updateMany, answered with the number of rows
markAllAsRead(c, userId) ==
    LET r == updateMany(store, userId)
    IN  /\ store' = r.store
        /\ clients' = [clients EXCEPT ![c] =
              [Call("markAllAsRead", "done", userId)
                  EXCEPT !.count = r.count, !.result = "ok"]]

\* POST /notifications/mark-read : markAll wins over notificationId; with
\* neither, nothing is done
MarkReadRoute(c, userId, notificationId, markAll) ==
    /\ Ready(c)
    /\ IF markAll
       THEN markAllAsRead(c, userId)
       ELSE /\ store' = store
            /\ clients' = [clients EXCEPT ![c] =
                  IF notificationId # NoId
                  THEN [Call("markAsRead", "find", userId) EXCEPT !.id = notificationId]
                  ELSE [Call("noAction", "done", userId) EXCEPT !.result = "ok"]]
    /\ UNCHANGED <<nextId, now, discordServiceUrl, deliverVars, routerVars>>

\* DELETE /notifications/:id : deleteNotification starts
DeleteRoute(c, userId, notificationId) ==
    /\ Ready(c)
    /\ clients' = [clients EXCEPT ![c] =
          [Call("deleteNotification", "find", userId) EXCEPT !.id = notificationId]]
    /\ UNCHANGED <<store, nextId, now, discordServiceUrl, deliverVars, routerVars>>

\* the findUnique of markAsRead / deleteNotification is answered and the
\* function throws notFound or forbidden, or goes on to its write
FindStep(c) ==
    LET cl == clients[c]
        auth == Authorize(findUnique(store, cl.id), cl.userId)
    IN  /\ cl.op \in {"markAsRead", "deleteNotification"}
        /\ cl.pc = "find"
        /\ clients' = [clients EXCEPT ![c] =
              IF auth = "ok" THEN [cl EXCEPT !.pc = "write"]
              ELSE [cl EXCEPT !.pc = "done", !.result = auth]]
        /\ UNCHANGED <<store, nextId, now, discordServiceUrl, deliverVars, routerVars>>

\* the update of markAsRead is answered; the updated row is returned
MarkAsReadUpdate(c) ==
    LET cl == clients[c]
        r == update(store, cl.id)
    IN  /\ cl.op = "markAsRead"
        /\ cl.pc = "write"
        /\ store' = r.store
        /\ clients' = [clients EXCEPT ![c] =
              [cl EXCEPT !.pc = "done",
                         !.result = IF r.threw THEN "PrismaError" ELSE "ok",
                         !.notifications = IF r.threw THEN <<>>
                                           ELSE findUnique(r.store, cl.id)]]
        /\ UNCHANGED <<nextId, now, discordServiceUrl, deliverVars, routerVars>>

\* the delete of deleteNotification is answered
DeleteDelete(c) ==
    LET cl == clients[c]
        r == delete(store, cl.id)
    IN  /\ cl.op = "deleteNotification"
        /\ cl.pc = "write"
        /\ store' = r.store
        /\ clients' = [clients EXCEPT ![c] =
              [cl EXCEPT !.pc = "done",
                         !.result = IF r.threw THEN "PrismaError" ELSE "ok"]]
        /\ UNCHANGED <<nextId, now, discordServiceUrl, deliverVars, routerVars>>

Init ==
    /\ store = <<>>
    /\ nextId = 1
    /\ discordServiceUrl \in ConfigUrls
    /\ dpc = "idle"
    /\ payload = NoPayload
    /\ channels = <<>>
    /\ idx = 1
    /\ results = <<>>
    /\ calls = <<>>
    /\ httpLog = <<>>
    /\ ndeliver = 0
    /\ events = <<>>
    /\ run = <<>>
    /\ now = 0
    /\ clients = [c \in Clients |-> Idle]

Next ==
    \/ \E p \in Payloads, chs \in ChannelLists : Deliver(p, chs)
    \/ DeliverStep
    \/ DeliverReturn

Spec == Init /\ [][Next]_vars

RouterNext ==
    \/ \E ev \in EventInputs : Dispatch(ev)
    \/ \E e \in 1..Len(events) : BodyStep(e)
    \/ \E e \in 1..Len(events) : Retry(e)
    \/ \E e \in 1..Len(events) : GiveUp(e)

\* the handlers never read the Discord configuration
RouterInit == Init /\ discordServiceUrl = Undefined

RouterSpec == RouterInit /\ [][RouterNext]_vars

\* the amounts an approved clip or a completed payout carries
Amounts == (0..MaxAmount) \cup {2550, 10000, 123456, 9999999}

AmountEvents ==
    { [type |-> "clip.approved",
       payload |-> [userId |-> "u1", clipId |-> "c1", campaignId |-> "k1",
                    paymentAmount |-> a]] : a \in Amounts }
    \cup
    { [type |-> "payment.payout_completed",
       payload |-> [userId |-> "u1", payoutId |-> "p1", amount |-> a,
                    transactionHash |-> "0xabc"]] : a \in Amounts }

\* one event carrying an amount goes through its handler
FormatNext ==
    \/ \E ev \in AmountEvents : events = <<>> /\ Dispatch(ev)
    \/ \E e \in 1..Len(events) : BodyStep(e)
    \/ \E e \in 1..Len(events) : Retry(e)
    \/ \E e \in 1..Len(events) : GiveUp(e)

FormatSpec == RouterInit /\ [][FormatNext]_vars

StoreNext ==
    \/ Tick
    \/ \E ev \in StoreEvents, so \in StoreOutcomes : Notify(ev, so)
    \/ \E c \in StoreClients, u \in Users, l \in Limits, o \in Offsets :
          ListRoute(c, u, l, o)
    \/ \E c \in StoreClients : ListFindMany(c)
    \/ \E c \in StoreClients : ListCount(c)
    \/ \E c \in StoreClients, u \in Users : UnreadCountRoute(c, u)
    \/ \E c \in StoreClients, u \in Users, id \in IdInputs \cup {NoId},
          all \in BOOLEAN : MarkReadRoute(c, u, id, all)
    \/ \E c \in StoreClients, u \in Users, id \in IdInputs : DeleteRoute(c, u, id)
    \/ \E c \in StoreClients : FindStep(c)
    \/ \E c \in StoreClients : MarkAsReadUpdate(c)
    \/ \E c \in StoreClients : DeleteDelete(c)

\* the API never reads the Discord configuration
StoreInit == Init /\ discordServiceUrl = Undefined

StoreSpec == StoreInit /\ [][StoreNext]_vars

\* requests of both clients that read a notification and then write it,
\* their store steps interleaved, while handlers create notifications
RaceNext ==
    \/ \E ev \in StoreEvents, so \in StoreOutcomes : Notify(ev, so)
    \/ \E c \in Clients, u \in Users, id \in IdInputs : MarkReadRoute(c, u, id, FALSE)
    \/ \E c \in Clients, u \in Users, id \in IdInputs : DeleteRoute(c, u, id)
    \/ \E c \in Clients : FindStep(c)
    \/ \E c \in Clients : MarkAsReadUpdate(c)
    \/ \E c \in Clients : DeleteDelete(c)

RaceSpec == StoreInit /\ [][RaceNext]_vars

----------------------------------------------------------------------------
(* Properties of deliver() *)

Recognized(channel) == channel \in {"in_app", "discord"}

CallsFor(i) == {k \in 1..Len(calls) : calls[k].entry = i}

\* a deliver step: the loop body ran for channels[idx]
DeliverStepTaken ==
    /\ dpc = "loop"
    /\ idx <= Len(channels)
    /\ <<dpc, idx, results>>' # <<dpc, idx, results>>

UnknownOutcome(channel) ==
    [channel |-> channel, success |-> FALSE, error |-> "Unknown channel"]

\* C1: deliver returns exactly one outcome per requested channel entry, the
\* i-th outcome naming the i-th requested channel, whatever succeeded or failed.
C1_OneOutcomePerChannelInOrder ==
    dpc = "returned" =>
        /\ Len(results) = Len(channels)
        /\ \A i \in 1..Len(channels) : results[i].channel = channels[i]

C1_Witness ==
    /\ dpc = "returned"
    /\ Len(channels) = 2
    /\ Len(results) = 2
    /\ results[1].success # results[2].success

\* C2: a failing channel does not stop the channels after it from being
\* attempted, and each outcome tells that channel's own result: success exactly
\* when its one strategy call returned, an in_app success with its row created,
\* a failure with a non-empty error.
C2_FailuresAreIsolated ==
    dpc = "returned" =>
        \A i \in 1..Len(channels) :
            Recognized(channels[i]) =>
                /\ i <= Len(results)
                /\ \E k \in CallsFor(i) :
                     /\ calls[k].strategy = channels[i]
                     /\ results[i].success = ~calls[k].threw
                     /\ (channels[i] = "in_app" =>
                            calls[k].rows = (IF results[i].success THEN 1 ELSE 0))
                /\ (~results[i].success => "error" \in DOMAIN results[i])
                /\ (channels[i] = "discord" /\ ~results[i].success =>
                        Len(results[i].error) > 0)

C2_Witness ==
    /\ dpc = "returned"
    /\ channels = <<"discord", "in_app">>
    /\ Len(results) = 2
    /\ ~results[1].success
    /\ results[2] = [channel |-> "in_app", success |-> TRUE]
    /\ Len(store) > 0
    /\ store[Len(store)].userId = payload.userId

\* C3: no channel failure leaves deliver as an exception: the call never ends
\* by throwing, every pass of the loop moves on to the next channel, and the
\* call returns its list also when every channel failed.
C3_NeverThrows ==
    /\ [](dpc # "threw")
    /\ [](dpc = "loop" => idx \in 1..(Len(channels) + 1))
    /\ [](dpc = "returned" => idx = Len(channels) + 1 /\ Len(results) = Len(channels))
    /\ [][DeliverStepTaken => dpc' = "loop" /\ idx' = idx + 1]_vars

C3_Witness ==
    /\ dpc = "returned"
    /\ Len(channels) = 2
    /\ Len(results) = 2
    /\ \A i \in 1..2 : ~results[i].success
    /\ \E i \in 1..2 : channels[i] = "in_app"
    /\ \E i \in 1..2 : channels[i] = "discord"

\* C4: an unrecognized channel identifier yields {channel, success:false,
\* error:'Unknown channel'} with no store row, no outbound request and no
\* strategy call, and the loop goes on to the remaining channels.
C4_UnknownChannel ==
    /\ [][(DeliverStepTaken /\ ~Recognized(channels[idx])) =>
            /\ results' = Append(results, UnknownOutcome(channels[idx]))
            /\ store' = store
            /\ nextId' = nextId
            /\ httpLog' = httpLog
            /\ calls' = calls
            /\ dpc' = "loop"
            /\ idx' = idx + 1]_vars
    /\ [](dpc = "returned" =>
            \A i \in 1..Len(channels) :
                Recognized(channels[i]) => CallsFor(i) # {})

C4_Witness ==
    /\ dpc = "returned"
    /\ channels = <<"sms", "in_app">>
    /\ results = <<UnknownOutcome("sms"), [channel |-> "in_app", success |-> TRUE]>>

\* C5: with no Discord service URL configured the discord channel is a no-op
\* success: {channel:'discord', success:true}, no outbound request, the store
\* left as it was.
C5_DiscordUnconfiguredIsNoOp ==
    [][(DeliverStepTaken /\ channels[idx] = "discord" /\ Falsy(discordServiceUrl)) =>
         /\ results' = Append(results, [channel |-> "discord", success |-> TRUE])
         /\ httpLog' = httpLog
         /\ store' = store
         /\ nextId' = nextId]_vars

C5_Witness ==
    /\ dpc = "returned"
    /\ Falsy(discordServiceUrl)
    /\ \E i \in 1..Len(results) : results[i] = [channel |-> "discord", success |-> TRUE]
    /\ httpLog = <<>>

\* C6: the coordinator never retries: within one deliver call each recognized
\* channel entry's strategy is invoked exactly once (never twice, also after a
\* failure or a timeout), and one invocation creates at most one store row.
C6_NoRetryInsideDeliver ==
    /\ \A i \in 1..Len(channels) : Cardinality(CallsFor(i)) <= 1
    /\ \A k \in 1..Len(calls) : calls[k].rows \in {0, 1} /\ calls[k].requests \in {0, 1}
    /\ (dpc = "returned" =>
            \A i \in 1..Len(channels) :
                Cardinality(CallsFor(i)) = (IF Recognized(channels[i]) THEN 1 ELSE 0))

C6_Witness ==
    /\ dpc = "returned"
    /\ channels = <<"in_app", "discord">>
    /\ Len(results) = 2
    /\ ~results[1].success
    /\ results[2] = [channel |-> "discord", success |-> FALSE,
                     error |-> "Discord delivery failed: timeout of 5000ms exceeded"]
    /\ Len(calls) = 2

----------------------------------------------------------------------------
(* Properties of the event handlers *)

Handled == 1..Len(events)

IsAck(mark) == mark \in {"ack_ok", "ack_fail"}
IsCreate(mark) == mark \in {"create_ok", "create_fail"}

\* the marks of the latest invocation of e's body
LastInvoke(e) ==
    CHOOSE k \in 1..Len(run[e].hist) :
        /\ run[e].hist[k] = "invoke"
        /\ \A l \in (k + 1)..Len(run[e].hist) : run[e].hist[l] # "invoke"

CurrentInvocation(e) == SubSeq(run[e].hist, LastInvoke(e) + 1, Len(run[e].hist))

Marks(seq) == {seq[k] : k \in 1..Len(seq)}

\* the latest invocation of e's body has returned or thrown
InvocationEnded(e) == run[e].pc \in {"threw", "done", "failed"}

Count(seq, marks) == Cardinality({k \in 1..Len(seq) : seq[k] \in marks})

\* rows of the store created on behalf of event e, over all its attempts
Created(e) == Count(run[e].hist, {"create_ok"})

\* the rows the routing table asks for
Expected(e) == IF HandlerRequest(events[e]).create THEN 1 ELSE 0

\* C7 as claimed: an invocation acknowledges the event once its delivery
\* attempt has completed, whether the creation succeeded or failed.
C7_AckRegardlessOfOutcome ==
    \A e \in Handled :
        InvocationEnded(e) => \E m \in Marks(CurrentInvocation(e)) : IsAck(m)

\* C7 as amended: an invocation calls context.ack() exactly when its creation
\* did not fail (it succeeded, or the routing policy asked for none); when the
\* store create fails the invocation ends by throwing without acknowledging,
\* and an event counts as handled only after a successful ack.
C7_AckOnlyAfterSuccessfulCreate ==
    \A e \in Handled :
        /\ InvocationEnded(e) =>
              ((\E m \in Marks(CurrentInvocation(e)) : IsAck(m))
                  <=> "create_fail" \notin Marks(CurrentInvocation(e)))
        /\ ("create_fail" \in Marks(CurrentInvocation(e)) => run[e].pc # "done")
        /\ (run[e].pc = "done" => "ack_ok" \in Marks(CurrentInvocation(e)))

C7_Witness ==
    \E e \in Handled :
        /\ run[e].pc = "threw"
        /\ CurrentInvocation(e) = <<"create_fail">>
        /\ store = <<>>

\* C8: in every invocation of every handler, context.ack() is called only
\* after that invocation's creation step has completed (or was skipped by the
\* routing policy), and nothing of the body runs after the ack.
C8_AckIsLastStepOfBody ==
    \A e \in Handled :
        \A k \in 1..Len(run[e].hist) :
            IsAck(run[e].hist[k]) =>
                /\ k > 1
                /\ run[e].hist[k - 1] \in {"create_ok", "no_create"}
                /\ (k < Len(run[e].hist) => run[e].hist[k + 1] = "invoke")
                /\ (k = Len(run[e].hist) => run[e].pc \in {"done", "threw", "failed"})

C8_Witness ==
    /\ \E e \in Handled :
         /\ events[e].type = "campaign.status_changed"
         /\ run[e].pc = "done"
         /\ run[e].hist = <<"invoke", "create_fail", "invoke", "create_ok", "ack_ok">>
         /\ Len(store) = 1

\* C9 as claimed: over all attempts of the retry wrapper the acknowledgement
\* is performed only once, and no creation is executed after an
\* acknowledgement has been attempted, also when that acknowledgement failed.
C9_AckOnceAndNoCreateAfterAck ==
    \A e \in Handled :
        /\ Count(run[e].hist, {"ack_ok", "ack_fail"}) <= 1
        /\ \A k, l \in 1..Len(run[e].hist) :
              (k < l /\ IsAck(run[e].hist[k])) => ~IsCreate(run[e].hist[l])

\* C10 as claimed: counted over all retry attempts, the rows created on behalf
\* of an event never exceed the one (or zero) the routing table asks for, and
\* a handled event has exactly that many.
C10_ExactlyOneRowPerEvent ==
    \A e \in Handled :
        /\ Created(e) <= Expected(e)
        /\ (run[e].pc = "done" => Created(e) = Expected(e))

Last(seq) == seq[Len(seq)]

\* event e's body ran one statement in this step
BodyStepTaken(e) ==
    /\ e \in Handled
    /\ Len(run'[e].hist) = Len(run[e].hist) + 1
    /\ Last(run'[e].hist) # "invoke"

\* the routing policy of campaign.status_changed: PAUSED, with changedBy present
Qualifies(ev) ==
    /\ ev.payload.newStatus = "PAUSED"
    /\ ev.payload.changedBy \notin {Undefined, Null, ""}

IsStatusChanged(e) == events[e].type = "campaign.status_changed"

\* what a campaign.status_changed invocation does to the store: a row for
\* changedBy exactly when the event qualifies, nothing otherwise
StatusChangedRouting ==
    [][\A e \in Handled :
          (IsStatusChanged(e) /\ BodyStepTaken(e)) =>
              LET mark == Last(run'[e].hist)
                  ev == events[e]
              IN  /\ (IsCreate(mark) => Qualifies(ev))
                  /\ (mark = "no_create" => ~Qualifies(ev))
                  /\ (mark = "create_ok" =>
                        /\ Len(store') = Len(store) + 1
                        /\ SubSeq(store', 1, Len(store)) = store
                        /\ Last(store').userId = ev.payload.changedBy
                        /\ Last(store').type = "CAMPAIGN_ENDING"
                        /\ Last(store').title = "Campaign Paused"
                        /\ Last(store').isRead = FALSE)
                  /\ (mark # "create_ok" => store' = store)]_vars

\* C11 as claimed: a campaign.status_changed event creates a notification
\* exactly when newStatus is PAUSED and changedBy is present (for changedBy,
\* CAMPAIGN_ENDING, "Campaign Paused"), leaves the store unchanged otherwise,
\* and every invocation acknowledges the event.
C11_StatusChangedAlwaysAcked ==
    /\ StatusChangedRouting
    /\ [](\A e \in Handled :
            (IsStatusChanged(e) /\ InvocationEnded(e)) =>
                \E m \in Marks(CurrentInvocation(e)) : IsAck(m))

\* C11 as amended: the same routing, and context.ack() is called by every
\* invocation of a non-qualifying event and by an invocation of a qualifying
\* event exactly when its create succeeded.
C11_StatusChangedRouting ==
    /\ StatusChangedRouting
    /\ [](\A e \in Handled :
            IsStatusChanged(e) =>
                /\ (~Qualifies(events[e]) => Created(e) = 0)
                /\ (InvocationEnded(e) =>
                      ((\E m \in Marks(CurrentInvocation(e)) : IsAck(m))
                          <=> (Qualifies(events[e]) =>
                                  "create_ok" \in Marks(CurrentInvocation(e))))))

C11_Witness ==
    \E e \in Handled :
        /\ IsStatusChanged(e)
        /\ events[e].payload.newStatus = "PAUSED"
        /\ events[e].payload.changedBy = Undefined
        /\ run[e].hist = <<"invoke", "no_create", "ack_ok">>
        /\ store = <<>>

\* the routing table: target user, notification type and title per event type
RoutingTable(ev) ==
    CASE ev.type = "clip.approved" ->
           [userId |-> ev.payload.userId, type |-> "CLIP_APPROVED",
            title |-> "Clip Approved"]
      [] ev.type = "clip.rejected" ->
           [userId |-> ev.payload.userId, type |-> "CLIP_REJECTED",
            title |-> "Clip Rejected"]
      [] ev.type = "payment.payout_completed" ->
           [userId |-> ev.payload.userId, type |-> "PAYMENT_COMPLETED",
            title |-> "Payment Completed"]
      [] ev.type = "dispute.created" ->
           [userId |-> ev.payload.userId, type |-> "SYSTEM_ALERT",
            title |-> "Dispute Created"]
      [] ev.type = "dispute.resolved" ->
           [userId |-> ev.payload.userId, type |-> "SYSTEM_ALERT",
            title |-> "Dispute Resolved"]
      [] ev.type = "campaign.ended" ->
           [userId |-> "system", type |-> "SYSTEM_ALERT", title |-> "Campaign Ended"]

\* C12: for clip approved, clip rejected, payout completed, dispute created,
\* dispute resolved and campaign ended, the creation step of the handler always
\* asks for a notification, and the row it creates has the target user, type
\* and title of the routing table, is unread, and is added to the store with
\* every other row left as it was.
C12_RoutingTable ==
    [][\A e \in Handled :
          (~IsStatusChanged(e) /\ BodyStepTaken(e)) =>
              LET mark == Last(run'[e].hist)
                  want == RoutingTable(events[e])
              IN  /\ mark # "no_create"
                  /\ (mark = "create_ok" =>
                        /\ Len(store') = Len(store) + 1
                        /\ SubSeq(store', 1, Len(store)) = store
                        /\ Last(store').userId = want.userId
                        /\ Last(store').type = want.type
                        /\ Last(store').title = want.title
                        /\ Last(store').isRead = FALSE
                        /\ \A k \in 1..Len(store) : store[k].id # Last(store').id)
                  /\ (mark # "create_ok" => store' = store)]_vars

C12_Witness ==
    \E e \in Handled :
        /\ events[e].type = "campaign.ended"
        /\ run[e].pc = "done"
        /\ Len(store) = 1
        /\ store[1].userId = "system"
        /\ store[1].type = "SYSTEM_ALERT"
        /\ store[1].title = "Campaign Ended"
        /\ ~store[1].isRead

\* row is a notification made from request req
RowOf(row, req) ==
    /\ row.userId = req.userId
    /\ row.type = req.type
    /\ row.title = req.title
    /\ row.message = req.message

RowsOf(req) == {k \in 1..Len(store) : RowOf(store[k], req)}

\* the events that carry the same notification as e
SameEvent(e) ==
    {f \in Handled : HandlerRequest(events[f]) = HandlerRequest(events[e])}

RECURSIVE SumCreated(_)
SumCreated(S) ==
    IF S = {} THEN 0
    ELSE LET f == CHOOSE x \in S : TRUE
         IN  Created(f) + SumCreated(S \ {f})

\* C13: nothing deduplicates: the store holds one row per successful create,
\* so an event whose creation ran twice to completion (a redelivery, or a
\* retry after a successful create) has two rows with different ids and the
\* same userId, type, title and message.
C13_DuplicatesAreKept ==
    /\ \A k, l \in 1..Len(store) : k # l => store[k].id # store[l].id
    /\ \A e \in Handled :
          HandlerRequest(events[e]).create =>
              Cardinality(RowsOf(HandlerRequest(events[e]))) = SumCreated(SameEvent(e))

C13_Witness ==
    \E e \in Handled :
        /\ Created(e) = 2
        /\ Len(store) = 2
        /\ store[1].id # store[2].id
        /\ store[1].userId = store[2].userId
        /\ store[1].type = store[2].type
        /\ store[1].title = store[2].title
        /\ store[1].message = store[2].message

\* C20: for an event that routes to a notification, an invocation calls
\* context.ack() only directly after its own create succeeded, the row then
\* being in the store; a failing create writes nothing and ends the
\* invocation, which then holds that one failed step and no ack
C20_NoAckWithoutPersistedRow ==
    /\ [][\A e \in Handled :
            (Expected(e) = 1 /\ BodyStepTaken(e)) =>
                /\ IsAck(Last(run'[e].hist)) =>
                      /\ Last(run[e].hist) = "create_ok"
                      /\ RowsOf(HandlerRequest(events[e])) # {}
                      /\ store' = store
                /\ Last(run'[e].hist) = "create_fail" =>
                      /\ store' = store
                      /\ nextId' = nextId
                      /\ run'[e].pc = "threw"]_vars
    /\ [](\A e \in Handled :
            "create_fail" \in Marks(CurrentInvocation(e)) =>
                /\ CurrentInvocation(e) = <<"create_fail">>
                /\ InvocationEnded(e))

\* campaign ended: the first invocation failed to create and ended without
\* ack, the second persisted the system notification and then acknowledged
C20_Witness ==
    \E e \in Handled :
        /\ events[e].type = "campaign.ended"
        /\ run[e].hist = <<"invoke", "create_fail", "invoke", "create_ok", "ack_ok">>
        /\ Len(store) = 1
        /\ store[1].userId = "system"

----------------------------------------------------------------------------
(* Properties of the HTTP API *)

Range(seq) == {seq[i] : i \in 1..Len(seq)}

Owned(st, userId) == {r \in Range(st) : r.userId = userId}

\* client c's findMany is answered in this step
FindManyAnswered(c) ==
    /\ clients[c].op = "getNotifications"
    /\ clients[c].pc \in {"queries", "counted"}
    /\ clients'[c].pc \in {"listed", "done"}

\* C14: whatever creates, mark-reads and deletes came before, a listing
\* holds only rows of the user it was asked for, as they are in the store,
\* each at most once and newest first; it has as many rows as the page range
\* leaves of the user's rows, so a range covering all of them shows every one
C14_ListingOwnedNewestFirst ==
    [][\A c \in Clients :
        FindManyAnswered(c) =>
            LET cl == clients[c]
                page == clients'[c].notifications
                mine == Owned(store, cl.userId)
                n == Cardinality(mine)
                left == IF n > cl.offset THEN n - cl.offset ELSE 0
            IN  /\ Range(page) \subseteq mine
                /\ \A i, j \in 1..Len(page) : i < j =>
                      /\ page[i].createdAt >= page[j].createdAt
                      /\ page[i].id # page[j].id
                /\ Len(page) = Min(cl.limit, left)
                /\ (cl.offset = 0 /\ cl.limit >= n) => Range(page) = mine
                /\ store' = store]_vars

\* a user's two notifications, created at different times, listed newest first
C14_Witness ==
    \E c \in Clients :
        /\ clients[c].op = "getNotifications"
        /\ clients[c].pc = "done"
        /\ Len(clients[c].notifications) = 2
        /\ clients[c].notifications[1].createdAt > clients[c].notifications[2].createdAt
        /\ clients[c].notifications[1].id > clients[c].notifications[2].id
        /\ clients[c].total = 2

\* client c alone acted in this step, answering a request of kind op at once
Answered(c, op) ==
    /\ Ready(c)
    /\ clients'[c].op = op
    /\ clients'[c].pc = "done"
    /\ \A d \in Clients \ {c} : clients'[d] = clients[d]
    /\ nextId' = nextId
    /\ now' = now
    /\ clients'[c] # clients[c] \/ store' # store

\* C15: markAllAsRead(u) leaves every notification of u read and otherwise
\* as it was, leaves the notifications of every other user as they were,
\* reports how many it marked, and getUnreadCount(u) is 0 right after it
C15_MarkAllMarksOnlyTheCallers ==
    [][\A c \in Clients :
        Answered(c, "markAllAsRead") =>
            LET u == clients'[c].userId
            IN  /\ Len(store') = Len(store)
                /\ \A k \in 1..Len(store) :
                      IF store[k].userId = u
                      THEN store'[k] = [store[k] EXCEPT !.isRead = TRUE]
                      ELSE store'[k] = store[k]
                /\ clients'[c].count = count(WhereUserUnread(store, u))
                /\ count(WhereUserUnread(store', u)) = 0]_vars

\* u1 marked all: its notification is read, the unread one of u2 still is
C15_Witness ==
    \E c \in Clients :
        /\ clients[c].op = "markAllAsRead"
        /\ clients[c].userId = "u1"
        /\ clients[c].count = 1
        /\ \E k \in 1..Len(store) : store[k].userId = "u1" /\ store[k].isRead
        /\ \E k \in 1..Len(store) : store[k].userId = "u2" /\ ~store[k].isRead

\* client c alone acted in this step, sending a request of kind op that is
\* answered in later steps
Started(c, op) ==
    /\ Ready(c)
    /\ clients'[c].op = op
    /\ clients'[c].pc \notin {"idle", "done"}
    /\ \A d \in Clients \ {c} : clients'[d] = clients[d]

\* the findUnique of client c's request of kind op is answered in this step
FindAnswered(c, op) ==
    /\ clients[c].op = op
    /\ clients[c].pc = "find"
    /\ clients'[c].pc # "find"

RowsWithId(st, id) == {r \in Range(st) : r.id = id}

\* C16: markAsRead(u, id) fails with NotFound when no notification has the
\* id and with Forbidden when its owner is not u, and with nothing else at
\* that point; up to and including the failure the store is unchanged
C16_MarkAsReadErrors ==
    [][\A c \in Clients :
        /\ Started(c, "markAsRead") => store' = store
        /\ FindAnswered(c, "markAsRead") =>
              LET cl == clients[c]
                  rows == RowsWithId(store, cl.id)
              IN  /\ store' = store
                  /\ rows = {} => clients'[c].result = "NotFound"
                  /\ (\E r \in rows : r.userId # cl.userId)
                        => clients'[c].result = "Forbidden"
                  /\ clients'[c].result \in {"NotFound", "Forbidden"}
                        => /\ clients'[c].pc = "done"
                           /\ \A r \in rows : r.userId # cl.userId
                  /\ clients'[c].result \notin {"NotFound", "Forbidden"}
                        => /\ clients'[c].pc = "write"
                           /\ clients'[c].result = "none"]_vars

\* u1 asked to mark the unread notification of u2: Forbidden, still unread
C16_Witness ==
    \E c \in Clients :
        /\ clients[c].op = "markAsRead"
        /\ clients[c].userId = "u1"
        /\ clients[c].result = "Forbidden"
        /\ \E r \in RowsWithId(store, clients[c].id) : r.userId = "u2" /\ ~r.isRead

Ids(st) == {r.id : r \in Range(st)}

\* the write of client c's request of kind op is answered in this step
WriteAnswered(c, op) ==
    /\ clients[c].op = op
    /\ clients[c].pc = "write"
    /\ clients'[c].pc = "done"

\* C17: deleteNotification(u, id) fails with NotFound when no notification
\* has the id and with Forbidden when its owner is not u, the store unchanged
\* up to then; a delete that succeeds removes that row and no other, a
\* removed id never comes back, and a listing only shows rows in the store
C17_DeleteRemovesOwnedOnly ==
    [][/\ \A c \in Clients :
            /\ Started(c, "deleteNotification") => store' = store
            /\ FindAnswered(c, "deleteNotification") =>
                  LET cl == clients[c]
                      rows == RowsWithId(store, cl.id)
                  IN  /\ store' = store
                      /\ rows = {} <=> clients'[c].result = "NotFound"
                      /\ (\E r \in rows : r.userId # cl.userId)
                            <=> clients'[c].result = "Forbidden"
                      /\ clients'[c].result = "none" <=> clients'[c].pc = "write"
            /\ WriteAnswered(c, "deleteNotification") =>
                  IF clients'[c].result = "ok"
                  THEN /\ clients[c].id \in Ids(store)
                       /\ store' = SelectSeq(store, LAMBDA r : r.id # clients[c].id)
                       /\ Len(store') = Len(store) - 1
                  ELSE store' = store
            /\ FindManyAnswered(c) =>
                  \A i \in 1..Len(clients'[c].notifications) :
                      clients'[c].notifications[i].id \in Ids(store)
       /\ \A id \in 1..MaxRows : (id < nextId /\ id \notin Ids(store)) => id \notin Ids(store')
      ]_vars

\* u1 deleted its notification 1: it is gone, the one of u2 is as it was
C17_Witness ==
    \E c \in Clients :
        /\ clients[c].op = "deleteNotification"
        /\ clients[c].userId = "u1"
        /\ clients[c].result = "ok"
        /\ clients[c].id = 1
        /\ nextId > 1
        /\ 1 \notin Ids(store)
        /\ \E r \in Range(store) : r.userId = "u2" /\ r.id = 2

\* the row with this id, which the store holds
RowWithId(st, id) == CHOOSE r \in Range(st) : r.id = id

\* this step is the write of a request of the kinds given, issued by userId
WrittenBy(userId, ops) ==
    \E c \in Clients :
        /\ clients'[c].userId = userId
        /\ clients'[c].op \in ops
        /\ clients'[c].pc = "done"
        /\ clients'[c].result = "ok"
        /\ Ready(c) \/ clients[c].pc = "write"
        /\ nextId' = nextId

\* C18: in every step, a notification that stays keeps every field but
\* isRead, which only goes from unread to read and only in a mark-read of
\* its owner; a notification goes away only in a delete of its owner; and a
\* notification appears only in a handler's create, no request being answered
C18_ImmutableExceptIsRead ==
    [][/\ \A id \in Ids(store) \cap Ids(store') :
            LET old == RowWithId(store, id)
                new == RowWithId(store', id)
            IN  /\ new = [old EXCEPT !.isRead = new.isRead]
                /\ new.isRead # old.isRead =>
                      /\ new.isRead
                      /\ WrittenBy(old.userId, {"markAsRead", "markAllAsRead"})
       /\ \A id \in Ids(store) \ Ids(store') :
            WrittenBy(RowWithId(store, id).userId, {"deleteNotification"})
       /\ \A id \in Ids(store') \ Ids(store) :
            /\ clients' = clients
            /\ id = nextId
            /\ nextId' = nextId + 1
            /\ Ids(store') = Ids(store) \cup {id}
            /\ \E ev \in EventInputs :
                  /\ HandlerRequest(ev).create
                  /\ RowOf(RowWithId(store', id), HandlerRequest(ev))
                  /\ ~RowWithId(store', id).isRead
      ]_vars

\* u1 marked its clip-approved notification read; the rest of it is as created
C18_Witness ==
    \E c \in Clients :
        /\ clients[c].op = "markAsRead"
        /\ clients[c].userId = "u1"
        /\ clients[c].result = "ok"
        /\ clients[c].id \in Ids(store)
        /\ LET r == RowWithId(store, clients[c].id)
           IN  /\ r.isRead
               /\ r.userId = "u1"
               /\ r.title = "Clip Approved"
               /\ r.message = "Your clip has been approved! You earned $25.50."

----------------------------------------------------------------------------
(* Properties of the amount formatting *)

\* the amount an event carries, in minor units
AmountOf(ev) ==
    IF ev.type = "clip.approved" THEN ev.payload.paymentAmount ELSE ev.payload.amount

\* '$', a div 100, '.', and a mod 100 as exactly two digits
Dollars(a) ==
    "$" \o ToString(a \div 100) \o "."
        \o (IF a % 100 < 10 THEN "0" \o ToString(a % 100) ELSE ToString(a % 100))

\* C19: the notification of an approved clip, or of a completed payout, with
\* amount a >= 0 in minor units carries '$', a div 100, '.', and a mod 100 as
\* two digits in its message
C19_AmountAsDollarsAndCents ==
    \A e \in 1..Len(events), k \in 1..Len(store) :
        LET a == AmountOf(events[e])
        IN  /\ events[e].type = "clip.approved" =>
                  store[k].message =
                      "Your clip has been approved! You earned " \o Dollars(a) \o "."
            /\ events[e].type = "payment.payout_completed" =>
                  store[k].message =
                      "Your payout of " \o Dollars(a) \o " has been completed."

\* the clip approved with paymentAmount 2550 is notified with $25.50
C19_Witness ==
    /\ Len(events) = 1
    /\ events[1].type = "clip.approved"
    /\ events[1].payload.paymentAmount = 2550
    /\ Len(store) >= 1
    /\ store[1].type = "CLIP_APPROVED"
    /\ store[1].message = "Your clip has been approved! You earned $25.50."

----------------------------------------------------------------------------
(* Properties of concurrent requests *)

\* C21 as claimed: markAsRead and deleteNotification read the row and then
\* write it in separate store steps, and however these steps interleave with
\* another request's delete of the same id, each call ends in success,
\* NotFound or Forbidden and in no other error, and a markAsRead that
\* succeeds returns a row the store holds
C21_OnlySuccessNotFoundForbidden ==
    /\ [](\A c \in Clients :
            (clients[c].op \in {"markAsRead", "deleteNotification"}
                /\ clients[c].pc = "done")
                => clients[c].result \in {"ok", "NotFound", "Forbidden"})
    /\ [][\A c \in Clients :
            (WriteAnswered(c, "markAsRead") /\ clients'[c].result = "ok")
                => /\ Len(clients'[c].notifications) = 1
                   /\ Range(clients'[c].notifications) \subseteq Range(store')]_vars

\* C22 as claimed: the page and the total one getNotifications call returns
\* fit together also when notifications of the user are created or deleted
\* meanwhile: the page has at most limit rows and at most
\* max(0, total - offset), and total is the number of the user's
\* notifications in the store the page was read from
C22_PageAndTotalConsistent ==
    \A c \in Clients :
        (clients[c].op = "getNotifications" /\ clients[c].pc = "done") =>
            LET cl == clients[c]
                left == IF cl.total > cl.offset THEN cl.total - cl.offset ELSE 0
            IN  /\ Len(cl.notifications) <= cl.limit
                /\ Len(cl.notifications) <= left
                /\ cl.total = cl.seen


====
